---- MODULE Spec2Model ----
(***************************************************************************)
(* Model of the Slack -> Micro.blog sync scripts of sophie-portfolio:      *)
(*   scripts/sync-bookmarks-to-microblog.js   (script "bookmarks")         *)
(*   scripts/sync-books-to-microblog.js       (script "books")             *)
(* and of the extractors of the snapshot scripts fetch-bookmarks.js and    *)
(* unnamed/part_001 (reading snapshot from Slack).                        *)
(*                                                                         *)
(* A message text is modelled as a sequence of whitespace-separated words  *)
(* (field "words") followed by the bracketed links <url|label> it holds    *)
(* (field "links").  A word never contains whitespace, so the regular      *)
(* expression /^(.+?)\s+by\s+(.+)$/i can only take a whole word as its     *)
(* separator.                                                              *)
(***************************************************************************)
EXTENDS Integers, Sequences, FiniteSets, TLC

(***************************************************************************)
(* Bounds of the model.                                                    *)
(***************************************************************************)
MaxRuns == 2
MaxMsgs == 2
MaxExtractMsgs == 3

(***************************************************************************)
(* Words and strings.                                                      *)
(***************************************************************************)
Emoji == "(books)"
LongWord == "Xlong"
Unknown == "Unknown"
MaxTitleLen == 200

\* String.prototype.toLowerCase on one word.
Lower(w) ==
  CASE w = "Dune" -> "dune"
    [] w = "Herbert" -> "herbert"
    [] w = "By" -> "by"
    [] w = "Stand" -> "stand"
    [] w = "Me" -> "me"
    [] w = "King" -> "king"
    [] w = "Reading:" -> "reading:"
    [] w = "Currently reading:" -> "currently reading:"
    [] w = "Now reading:" -> "now reading:"
    [] w = "Xlong" -> "xlong"
    [] w = "Unknown" -> "unknown"
    [] OTHER -> w

\* String.prototype.length of one word; LongWord stands for a word of 200
\* characters.
WordLen(w) ==
  CASE w = LongWord -> MaxTitleLen
    [] w \in {"Dune", "dune", "King", "king"} -> 4
    [] w \in {"Herbert", "herbert", "Unknown", "(books)"} -> 7
    [] w \in {"by", "By", "Me", "me"} -> 2
    [] w \in {"Stand", "stand"} -> 5
    [] w \in {"reading:", "Reading:"} -> 8
    [] w \in {"currently reading:", "Currently reading:"} -> 18
    [] w \in {"now reading:", "Now reading:"} -> 12
    [] w \in {"has", "<@U1>"} -> 3
    [] OTHER -> 6

RECURSIVE LowerSeq(_)
LowerSeq(ws) ==
  IF ws = <<>> THEN <<>> ELSE <<Lower(Head(ws))>> \o LowerSeq(Tail(ws))

\* The words of a text joined by single blanks: the JavaScript string.
RECURSIVE Join(_)
Join(ws) ==
  IF ws = <<>> THEN ""
  ELSE IF Len(ws) = 1 THEN ws[1]
  ELSE ws[1] \o " " \o Join(Tail(ws))

RECURSIVE TextLen(_)
TextLen(ws) ==
  IF ws = <<>> THEN 0
  ELSE IF Len(ws) = 1 THEN WordLen(ws[1])
  ELSE WordLen(ws[1]) + 1 + TextLen(Tail(ws))

\* One .replace(/^prefix\s*/i, '') of parseBookFromMessage.
StripPrefix(ws, prefix) ==
  IF ws # <<>> /\ Lower(ws[1]) = prefix THEN Tail(ws) ELSE ws

\* The chain of four replaces and the trim.
Cleaned(ws) ==
  StripPrefix(StripPrefix(StripPrefix(StripPrefix(ws, Emoji),
     "currently reading:"), "reading:"), "now reading:")

\* Positions at which /^(.+?)\s+by\s+(.+)$/i can put its separator: a word
\* "by" in any case with at least one word before and one after it.
BySeparators(ws) ==
  {i \in 2..(Len(ws) - 1) : Lower(ws[i]) = "by"}

Min(S) == CHOOSE i \in S : \A j \in S : i <= j

Max(S) == CHOOSE i \in S : \A j \in S : i >= j

NoBook == [ok |-> FALSE, title |-> <<>>, author |-> <<>>]

\* The title group greedy, /^(.+)\s+by\s+(.+)$/i: the separator is the last
\* candidate.
parseBookGreedy(ws) ==
  LET cleaned == Cleaned(ws)
      seps == BySeparators(cleaned)
  IN IF seps # {}
       THEN [ok |-> TRUE,
             title |-> SubSeq(cleaned, 1, Max(seps) - 1),
             author |-> SubSeq(cleaned, Max(seps) + 1, Len(cleaned))]
     ELSE IF TextLen(cleaned) > 0 /\ TextLen(cleaned) < MaxTitleLen
       THEN [ok |-> TRUE, title |-> cleaned, author |-> <<>>]
     ELSE NoBook

\* parseBookFromMessage: the title group is lazy, so the separator is the
\* first candidate.  A null author is the empty sequence (a matched author
\* is never empty); a null result is NoBook.
parseBookFromMessage(ws) ==
  LET cleaned == Cleaned(ws)
      seps == BySeparators(cleaned)
  IN IF seps # {}
       THEN [ok |-> TRUE,
             title |-> SubSeq(cleaned, 1, Min(seps) - 1),
             author |-> SubSeq(cleaned, Min(seps) + 1, Len(cleaned))]
     ELSE IF TextLen(cleaned) > 0 /\ TextLen(cleaned) < MaxTitleLen
       THEN [ok |-> TRUE, title |-> cleaned, author |-> <<>>]
     ELSE NoBook

\* `${book.title.toLowerCase()}|${(book.author || '').toLowerCase()}`
BookKey(book) ==
  Join(LowerSeq(book.title)) \o "|" \o Join(LowerSeq(book.author))

(***************************************************************************)
(* Messages.                                                               *)
(***************************************************************************)
SlackUrls == {"https://slack.com/x"}

\* url.includes('slack.com')
IsSlackUrl(url) == url \in SlackUrls

Msg(ws, ls, bot, thread, sub, t) ==
  [words |-> ws, links |-> ls, bot_id |-> bot, thread_ts |-> thread,
   subtype |-> sub, ts |-> t]

Link(u, l) == [url |-> u, label |-> l]

\* text.includes('http://') || text.includes('https://')
HasUrl(msg) == msg.links # <<>>

\* The check of bot_id left out.
IsSkippedButBots(msg) == msg.thread_ts \/ msg.subtype

\* msg.bot_id || msg.thread_ts, then msg.subtype
IsSkipped(msg) == msg.bot_id \/ msg.thread_ts \/ msg.subtype

\* text.match(/^<@U[A-Z0-9]+>/) || text.includes('has joined')
IsMentionOrJoin(msg) ==
  \/ msg.words # <<>> /\ msg.words[1] = "<@U1>"
  \/ \E i \in 1..(Len(msg.words) - 1) :
       msg.words[i] = "has" /\ msg.words[i + 1] = "joined"

(***************************************************************************)
(* Extractors.                                                             *)
(***************************************************************************)
\* No duplicate removed.
DedupKeepAll(seq, seen) == seq

\* [...new Set(urls)]: the first occurrence of each element, in order.
RECURSIVE DedupFrom(_, _)
DedupFrom(seq, seen) ==
  IF seq = <<>> THEN <<>>
  ELSE IF Head(seq) \in seen THEN DedupFrom(Tail(seq), seen)
  ELSE <<Head(seq)>> \o DedupFrom(Tail(seq), seen \cup {Head(seq)})

RECURSIVE LinkUrls(_)
LinkUrls(ls) ==
  IF ls = <<>> THEN <<>>
  ELSE IF IsSlackUrl(Head(ls).url) THEN LinkUrls(Tail(ls))
  ELSE <<Head(ls).url>> \o LinkUrls(Tail(ls))

RECURSIVE AllUrls(_)
AllUrls(messages) ==
  IF messages = <<>> THEN <<>>
  ELSE LinkUrls(Head(messages).links) \o AllUrls(Tail(messages))

\* The Set left out: every link, repeated ones too.
extractUrlsRepeated(messages) == AllUrls(messages)

\* sync-bookmarks-to-microblog.js extractUrls
extractUrls(messages) == DedupFrom(AllUrls(messages), {})

RECURSIVE ExtractBooksFrom(_, _)
ExtractBooksFrom(messages, seenTitles) ==
  IF messages = <<>> THEN <<>>
  ELSE LET msg == Head(messages)
           book == parseBookFromMessage(msg.words)
       IN IF HasUrl(msg) \/ IsSkipped(msg) \/ ~book.ok
               \/ BookKey(book) \in seenTitles
            THEN ExtractBooksFrom(Tail(messages), seenTitles)
          ELSE <<[title |-> book.title, author |-> book.author]>>
                 \o ExtractBooksFrom(Tail(messages),
                                     seenTitles \cup {BookKey(book)})

\* sync-books-to-microblog.js extractBooks
extractBooks(messages) == ExtractBooksFrom(messages, {})

\* unnamed/part_001 extractBooks (the reading snapshot from Slack): one more
\* filter, and the record carries the cover; cover is the outcome of fetchBookCover (found or null, "").
RECURSIVE ExtractReadingFrom(_, _, _)
ExtractReadingFrom(messages, seenTitles, cover) ==
  IF messages = <<>> THEN <<>>
  ELSE LET msg == Head(messages)
           book == parseBookFromMessage(msg.words)
       IN IF HasUrl(msg) \/ IsSkipped(msg) \/ IsMentionOrJoin(msg)
               \/ ~book.ok \/ BookKey(book) \in seenTitles
            THEN ExtractReadingFrom(Tail(messages), seenTitles, cover)
          ELSE <<[title |-> book.title,
                  author |-> IF book.author = <<>> THEN <<Unknown>>
                             ELSE book.author,
                  image |-> IF cover THEN "cover:" \o BookKey(book) ELSE ""]>>
                 \o ExtractReadingFrom(Tail(messages),
                                       seenTitles \cup {BookKey(book)}, cover)

extractBooksReading(messages, cover) ==
  ExtractReadingFrom(messages, {}, cover)

\* The key under which unnamed/part_001 deduplicates a record it returns:
\* the author of the record is 'Unknown' where the parsed author was null.
ReadingKey(rec) ==
  BookKey([title |-> rec.title,
           author |-> IF rec.author = <<Unknown>> THEN <<>> ELSE rec.author])

\* fetch-bookmarks.js: the title of a link; fetched is the outcome of
\* fetchPageTitle (TRUE: the page's title, FALSE: null).
BookmarkTitle(link, fetched) ==
  IF link.label = "" \/ link.label = link.url
    THEN IF fetched THEN "Title of " \o link.url ELSE link.url
  ELSE link.label

RECURSIVE LinkBookmarks(_, _, _)
LinkBookmarks(ls, ts, fetched) ==
  IF ls = <<>> THEN <<>>
  ELSE IF IsSlackUrl(Head(ls).url) THEN LinkBookmarks(Tail(ls), ts, fetched)
  ELSE <<[url |-> Head(ls).url, title |-> BookmarkTitle(Head(ls), fetched),
          date |-> ts]>> \o LinkBookmarks(Tail(ls), ts, fetched)

RECURSIVE AllBookmarks(_, _)
AllBookmarks(messages, fetched) ==
  IF messages = <<>> THEN <<>>
  ELSE LinkBookmarks(Head(messages).links, Head(messages).ts, fetched)
         \o AllBookmarks(Tail(messages), fetched)

\* Array.prototype.sort with (a, b) => new Date(b.date) - new Date(a.date):
\* newest first, stable.
RECURSIVE InsertNewestFirst(_, _)
InsertNewestFirst(b, sorted) ==
  IF sorted = <<>> THEN <<b>>
  ELSE IF Head(sorted).date >= b.date
    THEN <<Head(sorted)>> \o InsertNewestFirst(b, Tail(sorted))
  ELSE <<b>> \o sorted

RECURSIVE SortNewestFirst(_)
SortNewestFirst(seq) ==
  IF seq = <<>> THEN <<>>
  ELSE InsertNewestFirst(seq[Len(seq)], SortNewestFirst(SubSeq(seq, 1, Len(seq) - 1)))

RECURSIVE DedupByUrl(_, _)
DedupByUrl(seq, seen) ==
  IF seq = <<>> THEN <<>>
  ELSE IF Head(seq).url \in seen THEN DedupByUrl(Tail(seq), seen)
  ELSE <<Head(seq)>> \o DedupByUrl(Tail(seq), seen \cup {Head(seq).url})

\* fetch-bookmarks.js extractBookmarks
extractBookmarks(messages, fetched) ==
  DedupByUrl(SortNewestFirst(AllBookmarks(messages, fetched)), {})

(***************************************************************************)
(* The sync scripts: state.                                                *)
(*                                                                         *)
(* A run is one execution of a script as a process.  The model keeps two   *)
(* processes: the run under way (or last ended) and the one before it; a   *)
(* process that starts again starts afresh, as a new run.                  *)
(***************************************************************************)
VARIABLES
  script,       \* "bookmarks" or "books": which script the runs execute
  upstream,     \* the messages the Slack channel holds
  file,         \* the state file (STATE_FILE)
  now,          \* the clock: the number of runs started
  cur,          \* the process of the latest run, 0 before the first
  pc,           \* per process: where main() stands
  cfg,          \* per process: the environment (which variables are set)
  st,           \* per process: the in-memory state object
  loaded,       \* per process: the keys loadState returned
  messages,     \* per process: what fetchSlackMessages returned
  cands,        \* per process: the extracted urls / books
  newItems,     \* per process: newUrls / newBooks
  idx,          \* per process: position of the for loop in newItems
  isbn,         \* per process: book.isbn of the current book
  synced,       \* per process: the synced counter
  exitCode,     \* per process: -1 while running, then the exit status
  abortedFrom,  \* per process: where main() rejected, "" if it did not
  startedAt,    \* per process: the clock at the start
  fileAtStart,  \* per process: the state file at the start
  log,          \* per process: the operations performed, in order
  exInput,      \* extractors alone: the input messages
  exLookup,     \* extractors alone: outcome of the title / cover lookups
  exApplied,    \* extractors alone: the extractors applied so far
  exOut         \* extractors alone: the output of each extractor applied

runVars == <<script, upstream, file, now, cur, pc, cfg, st, loaded,
             messages, cands, newItems, idx, isbn, synced, exitCode,
             abortedFrom, startedAt, fileAtStart, log>>
exVars == <<exInput, exLookup, exApplied, exOut>>
vars == <<runVars, exVars>>

Procs == {1, 2}

Other(p) == IF p = 1 THEN 2 ELSE 1

Range(seq) == {seq[i] : i \in 1..Len(seq)}

RECURSIVE SeqsUpTo(_, _)
SeqsUpTo(S, n) ==
  IF n = 0 THEN {<<>>}
  ELSE LET shorter == SeqsUpTo(S, n - 1)
       IN shorter \cup {Append(q, x) : q \in shorter, x \in S}

UrlA == "https://a.com"
UrlB == "https://b.com"
UrlC == "https://c.com"
UrlSlack == "https://slack.com/x"

\* The history of the channel, newest first as conversations.history
\* returns it.
Channel ==
  << Msg(<<>>, <<Link(UrlC, ""), Link(UrlA, "")>>, FALSE, FALSE, FALSE, 6),
     Msg(<<>>, <<Link(UrlB, "B"), Link(UrlA, "")>>, FALSE, TRUE, FALSE, 5),
     Msg(<<"Stand">>, <<>>, FALSE, FALSE, FALSE, 4),
     Msg(<<"Stand", "by", "Me">>, <<>>, TRUE, FALSE, FALSE, 3),
     Msg(<<"dune", "By", "herbert">>, <<>>, FALSE, FALSE, FALSE, 2),
     Msg(<<"Dune", "by", "Herbert">>, <<>>, FALSE, FALSE, FALSE, 1) >>

RECURSIVE SubSeqs(_)
SubSeqs(seq) ==
  IF seq = <<>> THEN {<<>>}
  ELSE LET rest == SubSeqs(Tail(seq))
       IN rest \cup {<<Head(seq)>> \o q : q \in rest}

\* What the channel may hold: up to MaxMsgs messages of the history.
Upstreams == {q \in SubSeqs(Channel) : Len(q) <= MaxMsgs}

(***************************************************************************)
(* The state file.                                                         *)
(***************************************************************************)
\* kind: "absent" (no file), "garbage" (JSON.parse throws), "json".
\* hasKeys: the parsed value is an object with the syncedUrls / syncedBooks
\* array.  lastSync 0 is null.
File(kind, hasKeys, keys, lastSync) ==
  [kind |-> kind, hasKeys |-> hasKeys, keys |-> keys, lastSync |-> lastSync]

NoFile == File("absent", FALSE, <<>>, 0)

DefaultState == [hasKeys |-> TRUE, keys |-> <<>>, lastSync |-> 0]

\* The file not read: every run starts fresh.
loadStateFresh(f) == DefaultState

\* loadState
loadState(f) ==
  IF f.kind = "json"
    THEN [hasKeys |-> f.hasKeys, keys |-> f.keys, lastSync |-> f.lastSync]
  ELSE DefaultState

\* Only lastSync written.
saveStateNoKeys(state) == File("json", TRUE, <<>>, state.lastSync)

\* saveState: writeFileSync(STATE_FILE, JSON.stringify(state))
saveState(state) == File("json", TRUE, state.keys, state.lastSync)

\* The keys a later loadState finds in the file.
FileKeys(f) == IF f.kind = "json" /\ f.hasKeys THEN Range(f.keys) ELSE {}

InitFiles ==
  { NoFile,
    File("garbage", FALSE, <<>>, 0),
    File("json", FALSE, <<>>, 0),
    File("json", TRUE, <<UrlA>>, 0),
    File("json", TRUE, <<"dune|herbert">>, 0) }

(***************************************************************************)
(* The environment.                                                        *)
(***************************************************************************)
AllSet ==
  [slackToken |-> TRUE, channel |-> TRUE, mbToken |-> TRUE, shelfId |-> TRUE]

\* The environments considered: at most one variable is not set.
Configs ==
  {AllSet} \cup {[AllSet EXCEPT ![v] = FALSE] : v \in DOMAIN AllSet}

NoConfig ==
  [slackToken |-> FALSE, channel |-> FALSE, mbToken |-> FALSE,
   shelfId |-> FALSE]

\* The second pre-flight check left out.
ConfigOkNoDestination(c) == c.slackToken /\ c.channel

\* The two pre-flight checks of main(): neither calls process.exit(1).
ConfigOk(c) == c.slackToken /\ c.channel /\ c.mbToken

Terminal == {"Done", "Exited", "Aborted", "Killed"}

Ended(p) == pc[p] \in Terminal

\* The scheduler starts a run when no run is under way: the runs alternate
\* between the two processes.
Scheduled(p) ==
  IF cur = 0 THEN p = 1 ELSE p = Other(cur) /\ Ended(cur)

Event(op, key, res) == [op |-> op, key |-> key, res |-> res]

\* The identity key of a candidate.
Key(c) == IF script = "bookmarks" THEN c ELSE BookKey(c)

\* Where the for loop over newItems stands at position i.
LoopPc(i, n) ==
  IF i > n THEN "Persisting"
  ELSE IF script = "books" THEN "Enriching" ELSE "Publishing"

\* No run has started.
RunsIdle ==
  /\ now = 0
  /\ cur = 0
  /\ pc = [p \in Procs |-> "Idle"]
  /\ cfg = [p \in Procs |-> NoConfig]
  /\ st = [p \in Procs |-> DefaultState]
  /\ loaded = [p \in Procs |-> <<>>]
  /\ messages = [p \in Procs |-> <<>>]
  /\ cands = [p \in Procs |-> <<>>]
  /\ newItems = [p \in Procs |-> <<>>]
  /\ idx = [p \in Procs |-> 0]
  /\ isbn = [p \in Procs |-> ""]
  /\ synced = [p \in Procs |-> 0]
  /\ exitCode = [p \in Procs |-> -1]
  /\ abortedFrom = [p \in Procs |-> ""]
  /\ startedAt = [p \in Procs |-> 0]
  /\ fileAtStart = [p \in Procs |-> NoFile]
  /\ log = [p \in Procs |-> <<>>]

Extractors == {"urls", "books", "reading", "bookmarks"}

Init ==
  /\ script \in {"bookmarks", "books"}
  /\ upstream \in Upstreams
  /\ file \in InitFiles
  /\ RunsIdle
  /\ exInput = <<>>
  /\ exLookup = FALSE
  /\ exApplied = {}
  /\ exOut = [e \in Extractors |-> <<>>]

(***************************************************************************)
(* The sync scripts: main().                                               *)
(***************************************************************************)
Logged(p, op, key, res) == [log EXCEPT ![p] = Append(@, Event(op, key, res))]

\* Where main() goes after the pre-flight checks.
AfterConfig(c) ==
  IF ~ConfigOk(c) THEN "Exited"
  ELSE IF script = "books" /\ ~c.shelfId THEN "Shelves"
  ELSE "Loading"

\* A process starts with some environment and nothing in memory; main()
\* checks the required variables and calls process.exit(1) if one is
\* missing.
Start(p) ==
  /\ now < MaxRuns
  /\ Scheduled(p)
  /\ \E c \in Configs :
       /\ script = "bookmarks" => c.shelfId
       /\ cfg' = [cfg EXCEPT ![p] = c]
       /\ pc' = [pc EXCEPT ![p] = AfterConfig(c)]
       /\ exitCode' = [exitCode EXCEPT ![p] = IF ConfigOk(c) THEN -1 ELSE 1]
  /\ now' = now + 1
  /\ cur' = p
  /\ startedAt' = [startedAt EXCEPT ![p] = now + 1]
  /\ fileAtStart' = [fileAtStart EXCEPT ![p] = file]
  /\ st' = [st EXCEPT ![p] = DefaultState]
  /\ loaded' = [loaded EXCEPT ![p] = <<>>]
  /\ messages' = [messages EXCEPT ![p] = <<>>]
  /\ cands' = [cands EXCEPT ![p] = <<>>]
  /\ newItems' = [newItems EXCEPT ![p] = <<>>]
  /\ idx' = [idx EXCEPT ![p] = 0]
  /\ isbn' = [isbn EXCEPT ![p] = ""]
  /\ synced' = [synced EXCEPT ![p] = 0]
  /\ abortedFrom' = [abortedFrom EXCEPT ![p] = ""]
  /\ log' = [log EXCEPT ![p] = <<>>]
  /\ UNCHANGED <<script, upstream, file, exVars>>

\* sync-books: getBookshelves() and the search for "Currently Reading".
GetShelves(p) ==
  /\ pc[p] = "Shelves"
  /\ \E res \in {"found", "missing", "throw"} :
       /\ log' = Logged(p, "shelves", "", res)
       /\ pc' = [pc EXCEPT ![p] = CASE res = "found" -> "Loading"
                                    [] res = "missing" -> "Exited"
                                    [] OTHER -> "Aborted"]
       /\ exitCode' = [exitCode EXCEPT ![p] = CASE res = "found" -> -1
                                                [] res = "missing" -> 1
                                                [] OTHER -> 0]
       /\ abortedFrom' = [abortedFrom EXCEPT ![p] =
                            IF res = "throw" THEN "Shelves" ELSE @]
  /\ UNCHANGED <<script, upstream, file, now, cur, cfg, st, loaded,
                 messages, cands, newItems, idx, isbn, synced, startedAt,
                 fileAtStart, exVars>>

\* const state = loadState(); and the log line reading
\* state.syncedUrls.length, which throws if the array is missing.
Load(p) ==
  /\ pc[p] = "Loading"
  /\ LET s == loadState(file)
     IN /\ log' = Logged(p, "load", "", IF s.hasKeys THEN "ok" ELSE "throw")
        /\ IF s.hasKeys
             THEN /\ st' = [st EXCEPT ![p] = s]
                  /\ loaded' = [loaded EXCEPT ![p] = s.keys]
                  /\ pc' = [pc EXCEPT ![p] = "Fetching"]
                  /\ UNCHANGED <<exitCode, abortedFrom>>
           ELSE /\ pc' = [pc EXCEPT ![p] = "Aborted"]
                /\ exitCode' = [exitCode EXCEPT ![p] = 0]
                /\ abortedFrom' = [abortedFrom EXCEPT ![p] = "Loading"]
                /\ UNCHANGED <<st, loaded>>
  /\ UNCHANGED <<script, upstream, file, now, cur, cfg, messages, cands,
                 newItems, idx, isbn, synced, startedAt, fileAtStart, exVars>>

\* The check of data.ok left out.
fetchSlackMessagesUnchecked(res) == upstream

\* What fetchSlackMessages returns: the messages, or [] when Slack answers
\* ok: false.
fetchSlackMessages(res) == IF res = "ok" THEN upstream ELSE <<>>

\* fetchSlackMessages(): "ok" is data.ok, "notOk" is !data.ok, "throw" is
\* fetch() or response.json() rejecting.
Fetch(p) ==
  /\ pc[p] = "Fetching"
  /\ \E res \in {"ok", "notOk", "throw"} :
       /\ log' = Logged(p, "fetch", "", res)
       /\ IF res = "throw"
            THEN /\ pc' = [pc EXCEPT ![p] = "Aborted"]
                 /\ exitCode' = [exitCode EXCEPT ![p] = 0]
                 /\ abortedFrom' = [abortedFrom EXCEPT ![p] = "Fetching"]
                 /\ UNCHANGED messages
          ELSE /\ messages' = [messages EXCEPT ![p] = fetchSlackMessages(res)]
               /\ pc' = [pc EXCEPT ![p] = "Extracting"]
               /\ UNCHANGED <<exitCode, abortedFrom>>
  /\ UNCHANGED <<script, upstream, file, now, cur, cfg, st, loaded, cands,
                 newItems, idx, isbn, synced, startedAt, fileAtStart, exVars>>

\* The extractor of the script.
extract(msgs) ==
  IF script = "bookmarks" THEN extractUrls(msgs) ELSE extractBooks(msgs)

\* const urls = extractUrls(messages) / const books = extractBooks(messages)
Extract(p) ==
  /\ pc[p] = "Extracting"
  /\ cands' = [cands EXCEPT ![p] = extract(messages[p])]
  /\ pc' = [pc EXCEPT ![p] = "Diffing"]
  /\ UNCHANGED <<script, upstream, file, now, cur, cfg, st, loaded,
                 messages, newItems, idx, isbn, synced, exitCode, abortedFrom,
                 startedAt, fileAtStart, log, exVars>>

\* The filter left out: every extracted item is new.
NewOfAll(items, keys) == items

\* urls.filter(url => !state.syncedUrls.includes(url))
NewOf(items, keys) ==
  LET IsNew(c) == Key(c) \notin Range(keys)
  IN SelectSeq(items, IsNew)

Diff(p) ==
  /\ pc[p] = "Diffing"
  /\ newItems' = [newItems EXCEPT ![p] = NewOf(cands[p], st[p].keys)]
  /\ idx' = [idx EXCEPT ![p] = 1]
  /\ synced' = [synced EXCEPT ![p] = 0]
  /\ pc' = [pc EXCEPT ![p] = LoopPc(1, Len(NewOf(cands[p], st[p].keys)))]
  /\ UNCHANGED <<script, upstream, file, now, cur, cfg, st, loaded,
                 messages, cands, isbn, exitCode, abortedFrom, startedAt,
                 fileAtStart, log, exVars>>

\* sync-books: book.isbn = await searchIsbn(...); never throws, the ISBN
\* or null ("").
Enrich(p) ==
  /\ pc[p] = "Enriching"
  /\ \E found \in {"isbn", ""} : isbn' = [isbn EXCEPT ![p] = found]
  /\ log' = Logged(p, "enrich", Key(newItems[p][idx[p]]), "")
  /\ pc' = [pc EXCEPT ![p] = "Publishing"]
  /\ UNCHANGED <<script, upstream, file, now, cur, cfg, st, loaded,
                 messages, cands, newItems, idx, synced, exitCode, abortedFrom,
                 startedAt, fileAtStart, exVars>>

\* The outcomes of createMicroblogBookmark / addBookToMicroblog: "ok", "fail"
\* (the request fails or the answer is not 2xx: throws), and for books
\* "badBody" (2xx, but response.json() throws: the book was added).
PublishOutcomes ==
  IF script = "books" THEN {"ok", "fail", "badBody"} ELSE {"ok", "fail"}

\* The push moved out of the try block: the key is recorded whatever the
\* outcome.
RecordAlways(state, key, res) == [state EXCEPT !.keys = Append(@, key)]

\* The push left out.
RecordNothing(state, key, res) == state

\* state.syncedUrls.push(url) after the publish call returned.
Record(state, key, res) ==
  IF res = "ok" THEN [state EXCEPT !.keys = Append(@, key)] ELSE state

\* One pass of the try block up to the delay, or into the catch.  The book
\* object, and its isbn, is not used after the pass.
Publish(p) ==
  /\ pc[p] = "Publishing"
  /\ LET key == Key(newItems[p][idx[p]])
     IN \E res \in PublishOutcomes :
          /\ log' = Logged(p, "publish", key, res)
          /\ st' = [st EXCEPT ![p] = Record(@, key, res)]
          /\ IF res = "ok"
               THEN /\ synced' = [synced EXCEPT ![p] = @ + 1]
                    /\ pc' = [pc EXCEPT ![p] = "Delay"]
                    /\ UNCHANGED idx
             ELSE /\ idx' = [idx EXCEPT ![p] = @ + 1]
                  /\ pc' = [pc EXCEPT ![p] =
                              LoopPc(idx[p] + 1, Len(newItems[p]))]
                  /\ UNCHANGED synced
  /\ isbn' = [isbn EXCEPT ![p] = ""]
  /\ UNCHANGED <<script, upstream, file, now, cur, cfg, loaded, messages,
                 cands, newItems, exitCode, abortedFrom, startedAt,
                 fileAtStart, exVars>>

\* await new Promise(r => setTimeout(r, 500)), last statement of the try.
Delay(p) ==
  /\ pc[p] = "Delay"
  /\ log' = Logged(p, "delay", "", "")
  /\ idx' = [idx EXCEPT ![p] = @ + 1]
  /\ pc' = [pc EXCEPT ![p] = LoopPc(idx[p] + 1, Len(newItems[p]))]
  /\ UNCHANGED <<script, upstream, file, now, cur, cfg, st, loaded,
                 messages, cands, newItems, isbn, synced, exitCode,
                 abortedFrom, startedAt, fileAtStart, exVars>>

\* state.lastSync = new Date().toISOString()
Stamp(state, t) == [state EXCEPT !.lastSync = t]

\* state.lastSync = ...; saveState(state); and main() returns.
Persist(p) ==
  /\ pc[p] = "Persisting"
  /\ st' = [st EXCEPT ![p] = Stamp(@, now)]
  /\ file' = saveState(Stamp(st[p], now))
  /\ log' = Logged(p, "save", "", "ok")
  /\ pc' = [pc EXCEPT ![p] = "Done"]
  /\ exitCode' = [exitCode EXCEPT ![p] = 0]
  /\ UNCHANGED <<script, upstream, now, cur, cfg, loaded, messages, cands,
                 newItems, idx, isbn, synced, abortedFrom, startedAt,
                 fileAtStart, exVars>>

\* What writeFileSync leaves of the file when it is cut short after the
\* open, which truncates: nothing, or the beginning of the JSON text.  Either
\* way JSON.parse throws on it.
Truncated == File("garbage", FALSE, <<>>, 0)

\* The files writeFileSync(STATE_FILE, JSON.stringify(state)) can leave if
\* the process dies in it: the file as it was (before the open), the
\* truncated file (after the open, before the last write), the new state
\* (after the last write).
CutShort(f, state) == {f, Truncated, saveState(state)}

\* The process dies while it is in saveState(state).
Kill(p) ==
  /\ pc[p] = "Persisting"
  /\ st' = [st EXCEPT ![p] = Stamp(@, now)]
  /\ file' \in CutShort(file, Stamp(st[p], now))
  /\ log' = Logged(p, "save", "", "killed")
  /\ pc' = [pc EXCEPT ![p] = "Killed"]
  /\ exitCode' = [exitCode EXCEPT ![p] = 137]
  /\ UNCHANGED <<script, upstream, now, cur, cfg, loaded, messages, cands,
                 newItems, idx, isbn, synced, abortedFrom, startedAt,
                 fileAtStart, exVars>>

Next ==
  \E p \in Procs :
    \/ Start(p)
    \/ GetShelves(p)
    \/ Load(p)
    \/ Fetch(p)
    \/ Extract(p)
    \/ Diff(p)
    \/ Enrich(p)
    \/ Publish(p)
    \/ Delay(p)
    \/ Persist(p)

Spec == Init /\ [][Next]_vars

\* The runs, one at a time, where a process may die in saveState.
NextKill ==
  \/ Next
  \/ \E p \in Procs : Kill(p)

SpecKill == Init /\ [][NextKill]_vars

(***************************************************************************)
(* Runs of sync-bookmarks that may overlap: nothing in main() keeps a      *)
(* process from starting while another is under way, and nothing locks the *)
(* state file.                                                             *)
(***************************************************************************)
\* What the channel holds here: messages with links.
InitOverlap ==
  /\ script = "bookmarks"
  /\ upstream \in {q \in Upstreams : q # <<>> /\ \A i \in 1..Len(q) : HasUrl(q[i])}
  /\ file \in {f \in InitFiles : f.kind # "garbage" /\ FileKeys(f) \subseteq {UrlA}}
  /\ RunsIdle
  /\ exInput = <<>>
  /\ exLookup = FALSE
  /\ exApplied = {}
  /\ exOut = [e \in Extractors |-> <<>>]

\* A process starts, with every variable of the environment set, whether or
\* not the other is under way; the first entry of its log tells which.
StartOverlap(p) ==
  /\ now < MaxRuns
  /\ pc[p] \in {"Idle"} \cup Terminal
  /\ cfg' = [cfg EXCEPT ![p] = AllSet]
  /\ pc' = [pc EXCEPT ![p] = AfterConfig(AllSet)]
  /\ exitCode' = [exitCode EXCEPT ![p] = -1]
  /\ now' = now + 1
  /\ cur' = p
  /\ startedAt' = [startedAt EXCEPT ![p] = now + 1]
  /\ fileAtStart' = [fileAtStart EXCEPT ![p] = file]
  /\ st' = [st EXCEPT ![p] = DefaultState]
  /\ loaded' = [loaded EXCEPT ![p] = <<>>]
  /\ messages' = [messages EXCEPT ![p] = <<>>]
  /\ cands' = [cands EXCEPT ![p] = <<>>]
  /\ newItems' = [newItems EXCEPT ![p] = <<>>]
  /\ idx' = [idx EXCEPT ![p] = 0]
  /\ isbn' = [isbn EXCEPT ![p] = ""]
  /\ synced' = [synced EXCEPT ![p] = 0]
  /\ abortedFrom' = [abortedFrom EXCEPT ![p] = ""]
  /\ log' = [log EXCEPT ![p] =
               <<Event("start", "",
                       IF pc[Other(p)] \in {"Idle"} \cup Terminal
                         THEN "alone" ELSE "overlap")>>]
  /\ UNCHANGED <<script, upstream, file, exVars>>

NextOverlap ==
  \E p \in Procs :
    \/ StartOverlap(p)
    \/ Load(p)
    \/ Fetch(p)
    \/ Extract(p)
    \/ Diff(p)
    \/ Publish(p)
    \/ Delay(p)
    \/ Persist(p)

SpecOverlap == InitOverlap /\ [][NextOverlap]_vars

(***************************************************************************)
(* The extractors on their own: any input, each extractor applied once.    *)
(***************************************************************************)
ExtractPool ==
  { Msg(<<"Dune", "by", "Herbert">>, <<>>, FALSE, FALSE, FALSE, 1),
    Msg(<<"dune", "By", "herbert">>, <<>>, FALSE, FALSE, FALSE, 2),
    Msg(<<Emoji, "Currently reading:", "Stand", "by", "Me", "by", "King">>,
        <<>>, FALSE, FALSE, FALSE, 3),
    Msg(<<"Stand", "by", "Me">>, <<>>, TRUE, FALSE, FALSE, 4),
    Msg(<<"Dune">>, <<>>, FALSE, TRUE, FALSE, 1),
    Msg(<<"<@U1>", "has", "joined">>, <<>>, FALSE, FALSE, TRUE, 2),
    Msg(<<"has", "joined">>, <<>>, FALSE, FALSE, FALSE, 3),
    Msg(<<LongWord>>, <<>>, FALSE, FALSE, FALSE, 4),
    Msg(<<>>, <<Link(UrlA, "Old")>>, FALSE, FALSE, FALSE, 1),
    Msg(<<"Dune">>, <<Link(UrlA, ""), Link(UrlSlack, "")>>,
        FALSE, FALSE, FALSE, 2),
    Msg(<<>>, <<Link(UrlB, "B"), Link(UrlA, UrlA)>>, TRUE, FALSE, FALSE, 3) }

InitExtract ==
  /\ script = "books"
  /\ upstream = <<>>
  /\ file = NoFile
  /\ RunsIdle
  /\ exInput \in SeqsUpTo(ExtractPool, MaxExtractMsgs)
  /\ exLookup \in BOOLEAN
  /\ exApplied = {}
  /\ exOut = [e \in Extractors |-> <<>>]

\* The extractors are applied in turn, each once.
Applied(e, before, out) ==
  /\ exApplied = before
  /\ exApplied' = exApplied \cup {e}
  /\ exOut' = [exOut EXCEPT ![e] = out]
  /\ UNCHANGED <<exInput, exLookup, runVars>>

ApplyExtractUrls == Applied("urls", {}, extractUrls(exInput))

ApplyExtractBooks == Applied("books", {"urls"}, extractBooks(exInput))

ApplyExtractBooksReading ==
  Applied("reading", {"urls", "books"},
          extractBooksReading(exInput, exLookup))

ApplyExtractBookmarks ==
  Applied("bookmarks", {"urls", "books", "reading"},
          extractBookmarks(exInput, exLookup))

NextExtract ==
  \/ ApplyExtractUrls
  \/ ApplyExtractBooks
  \/ ApplyExtractBooksReading
  \/ ApplyExtractBookmarks

SpecExtract == InitExtract /\ [][NextExtract]_vars

(***************************************************************************)
(* Properties: vocabulary.                                                 *)
(***************************************************************************)
Started(p) == pc[p] # "Idle"

\* The process of the run before the latest one, once there is one.
Prev == Other(cur)
HasPrev == cur # 0 /\ Started(Other(cur))

EventsOf(p, op) == {i \in 1..Len(log[p]) : log[p][i].op = op}

\* The keys for which the run called publish, and those for which the call
\* returned.
Attempted(p) == {log[p][i].key : i \in EventsOf(p, "publish")}
OkKeys(p) ==
  {log[p][i].key : i \in {j \in EventsOf(p, "publish") : log[p][j].res = "ok"}}
FailedKeys(p) == Attempted(p) \ OkKeys(p)

\* The outcome of the fetch of the run, "none" before it.
FetchRes(p) ==
  IF EventsOf(p, "fetch") = {} THEN "none"
  ELSE log[p][Min(EventsOf(p, "fetch"))].res

PastExtract == {"Diffing", "Enriching", "Publishing", "Delay", "Persisting",
                "Done"}
PastDiff == PastExtract \ {"Diffing"}

RECURSIVE KeySeq(_)
KeySeq(items) ==
  IF items = <<>> THEN <<>> ELSE <<Key(Head(items))>> \o KeySeq(Tail(items))

\* The keys of the sequence that are not in the set, in order.
Without(keys, S) ==
  LET Keep(k) == k \notin S IN SelectSeq(keys, Keep)

\* The keys of the publish calls of a run, in the order of the calls.
PublishSeq(p) ==
  LET IsPublish(e) == e.op = "publish"
      calls == SelectSeq(log[p], IsPublish)
  IN [i \in 1..Len(calls) |-> calls[i].key]

\* How many publish calls for the key returned, in the two runs together.
OkCalls(p, k) ==
  {i \in EventsOf(p, "publish") : log[p][i].key = k /\ log[p][i].res = "ok"}
OkCount(k) == Cardinality(OkCalls(1, k)) + Cardinality(OkCalls(2, k))

\* Both of the last two runs fetched the same messages.
SameUpstreamTwice ==
  /\ HasPrev
  /\ FetchRes(Prev) = "ok"
  /\ FetchRes(cur) = "ok"
  /\ messages[Prev] = messages[cur]

(***************************************************************************)
(* C1.                                                                     *)
(***************************************************************************)
\* C1 (as stated): of two consecutive runs that see the same upstream
\* messages, the second calls publish for nothing, and no key is published
\* twice over the two.
C1_Idempotent ==
  SameUpstreamTwice =>
    /\ Attempted(cur) = {}
    /\ \A k \in Attempted(Prev) \cup Attempted(cur) : OkCount(k) <= 1

\* C1 (amended): of two consecutive runs that see the same upstream
\* messages, no key has a publish call that returned in both or twice in
\* one, and the new candidates of the second run are exactly the new
\* candidates of the first whose publish call did not return, in the same
\* order; so the second run publishes nothing if every call of the first
\* returned.
C1_IdempotentUpToRetry ==
  SameUpstreamTwice =>
    /\ \A k \in Attempted(Prev) \cup Attempted(cur) : OkCount(k) <= 1
    /\ Attempted(cur) \subseteq FailedKeys(Prev)
    /\ pc[cur] \in PastDiff =>
         KeySeq(newItems[cur]) = Without(KeySeq(newItems[Prev]), OkKeys(Prev))

\* C1 witness: the first run published one key and failed on another, and
\* the second run has retried the failed one and ended.
C1_Witness ==
  /\ SameUpstreamTwice
  /\ pc[cur] = "Done"
  /\ OkKeys(Prev) # {}
  /\ FailedKeys(Prev) # {}
  /\ Attempted(cur) = FailedKeys(Prev)

(***************************************************************************)
(* C2.                                                                     *)
(***************************************************************************)
\* C2: when a run has ended, publish was called once for each new candidate
\* in extraction order; the state it saved holds, after the keys it loaded,
\* the keys whose call returned, in that order, and none of the keys whose
\* call failed; and a failed key is a new candidate of the next run that
\* fetches the same messages.
C2_PartialFailureIsolation ==
  \A p \in Procs :
    pc[p] = "Done" =>
      /\ PublishSeq(p) = KeySeq(newItems[p])
      /\ st[p].keys = loaded[p] \o Without(KeySeq(newItems[p]), FailedKeys(p))
      /\ FailedKeys(p) \cap Range(st[p].keys) = {}
      /\ p = cur => file = saveState(st[p])
      /\ (p # cur) => fileAtStart[cur] = saveState(st[p])
      /\ (p # cur /\ FetchRes(cur) = "ok" /\ pc[cur] \in PastDiff) =>
           FailedKeys(p) \subseteq Range(KeySeq(newItems[cur]))

\* C2 witness: a run published its first candidate, failed on the second,
\* published the third and ended, and the next run has the failed one as a
\* new candidate.
C2_Witness ==
  /\ HasPrev
  /\ pc[Prev] = "Done"
  /\ Len(log[Prev]) >= 3
  /\ \E i, j, k \in EventsOf(Prev, "publish") :
       /\ i < j /\ j < k
       /\ log[Prev][i].res = "ok"
       /\ log[Prev][j].res = "fail"
       /\ log[Prev][k].res = "ok"
  /\ pc[cur] \in PastDiff
  /\ FailedKeys(Prev) \subseteq Range(KeySeq(newItems[cur]))

(***************************************************************************)
(* C3.                                                                     *)
(***************************************************************************)
\* C3: no step removes a key from the state file or from the state a run
\* holds in memory, and the keys a run has saved include the keys the file
\* held when it started.
C3_MonotonicGrowth ==
  /\ [](\A p \in Procs :
          pc[p] = "Done" =>
            /\ FileKeys(fileAtStart[p]) \subseteq Range(st[p].keys)
            /\ p = cur => FileKeys(fileAtStart[p]) \subseteq FileKeys(file))
  /\ [][/\ FileKeys(file) \subseteq FileKeys(file')
        /\ \A p \in Procs :
             (Started(p) /\ ~Ended(p)) =>
               Range(st[p].keys) \subseteq Range(st'[p].keys)]_vars

\* C3 witness: a run that started from a file with keys has saved more.
C3_Witness ==
  \E p \in Procs :
    /\ pc[p] = "Done"
    /\ p = cur
    /\ FileKeys(fileAtStart[p]) # {}
    /\ FileKeys(fileAtStart[p]) # FileKeys(file)

(***************************************************************************)
(* C4.                                                                     *)
(***************************************************************************)
\* C4: in every state, the keys a run holds are the keys it loaded followed
\* by keys of its new candidates for which a publish call has returned.
C4_RecordedOnlyAfterPublish ==
  \A p \in Procs :
    /\ Len(st[p].keys) >= Len(loaded[p])
    /\ SubSeq(st[p].keys, 1, Len(loaded[p])) = loaded[p]
    /\ \A i \in (Len(loaded[p]) + 1)..Len(st[p].keys) :
         /\ st[p].keys[i] \in OkKeys(p)
         /\ st[p].keys[i] \in Range(KeySeq(newItems[p]))

\* C4 witness: a run that loaded keys has recorded a key after one publish
\* call failed and one returned.
C4_Witness ==
  \E p \in Procs :
    /\ loaded[p] # <<>>
    /\ Len(st[p].keys) > Len(loaded[p])
    /\ FailedKeys(p) # {}

(***************************************************************************)
(* C5.                                                                     *)
(***************************************************************************)
\* C5 (as stated): a run whose fetch failed (Slack answered not ok, or the
\* fetch threw) is aborted from Fetching, has called publish for nothing,
\* and leaves the state file as it was when the run started.
C5_FetchFailureAborts ==
  \A p \in Procs :
    FetchRes(p) \in {"notOk", "throw"} =>
      /\ pc[p] = "Aborted"
      /\ abortedFrom[p] = "Fetching"
      /\ Attempted(p) = {}
      /\ p = cur => file = fileAtStart[p]

\* C5 (amended): a run whose fetch threw (Slack unreachable, or a payload
\* that does not parse) is aborted from Fetching, has called publish for
\* nothing and leaves the state file as it was; a run to which Slack
\* answered not ok is not aborted: it goes on with no messages, calls
\* publish for nothing, and when it has ended it has saved the keys it
\* loaded with lastSync set to the time of the run.
C5_ThrowAbortsNotOkGoesOn ==
  \A p \in Procs :
    /\ FetchRes(p) = "throw" =>
         /\ pc[p] = "Aborted"
         /\ abortedFrom[p] = "Fetching"
         /\ Attempted(p) = {}
         /\ EventsOf(p, "save") = {}
         /\ p = cur => file = fileAtStart[p]
    /\ FetchRes(p) = "notOk" =>
         /\ pc[p] \in PastExtract \cup {"Extracting"}
         /\ messages[p] = <<>>
         /\ Attempted(p) = {}
         /\ st[p].keys = loaded[p]
         /\ (pc[p] = "Done" /\ p = cur) =>
              /\ file.kind = "json"
              /\ file.keys = loaded[p]
              /\ file.lastSync = startedAt[p]

\* C5 witness: the run before the latest was aborted by a fetch that threw,
\* and the latest, answered not ok by a channel that holds messages, has
\* ended and rewritten a file that held keys.
C5_Witness ==
  /\ HasPrev
  /\ FetchRes(Prev) = "throw"
  /\ pc[Prev] = "Aborted"
  /\ FetchRes(cur) = "notOk"
  /\ pc[cur] = "Done"
  /\ upstream # <<>>
  /\ loaded[cur] # <<>>
  /\ file # fileAtStart[cur]

(***************************************************************************)
(* C6.                                                                     *)
(***************************************************************************)
\* A run ended by a missing setting (a required variable, or the bookshelf
\* that could not be resolved) or by a fetch that threw.
AbortedByConfigOrFetch(p) ==
  \/ pc[p] = "Exited"
  \/ pc[p] = "Aborted" /\ abortedFrom[p] \in {"Shelves", "Fetching"}

\* C6: a run saves only after publish was called for every new candidate,
\* and a run that has ended otherwise than by a configuration error or a
\* fatal fetch failure has saved once, as its last step, with lastSync the
\* time of the run.
C6_SavesExactlyOnce ==
  \A p \in Procs :
    /\ EventsOf(p, "save") # {} =>
         /\ pc[p] = "Done"
         /\ PublishSeq(p) = KeySeq(newItems[p])
    /\ (Ended(p) /\ ~AbortedByConfigOrFetch(p)) =>
         /\ EventsOf(p, "save") = {Len(log[p])}
         /\ st[p].lastSync = startedAt[p]
         /\ p = cur => file = saveState(st[p])

(***************************************************************************)
(* C7.                                                                     *)
(***************************************************************************)
\* A file that holds a state: JSON with the array of keys.
HoldsState(f) == f.kind = "json" /\ f.hasKeys

\* C7: a run that has loaded the state is not aborted by it, whatever the
\* file held, and if the file held no state the run has the default state.
C7_LoadNeverFails ==
  \A p \in Procs :
    EventsOf(p, "load") # {} =>
      /\ ~(pc[p] = "Aborted" /\ abortedFrom[p] = "Loading")
      /\ ~HoldsState(fileAtStart[p]) => loaded[p] = <<>>

(***************************************************************************)
(* C9.                                                                     *)
(***************************************************************************)
\* C9: a run started without one of SLACK_BOT_TOKEN, the channel id and
\* MICROBLOG_TOKEN has exited with status 1 and has done nothing: no network
\* call, no load, no save, and the state file is as it was.
C9_MissingConfigExitsFirst ==
  \A p \in Procs :
    (Started(p) /\ (~cfg[p].slackToken \/ ~cfg[p].channel \/ ~cfg[p].mbToken))
      => /\ pc[p] = "Exited"
         /\ exitCode[p] = 1
         /\ log[p] = <<>>
         /\ p = cur => file = fileAtStart[p]

\* C9 witness: sync-books started without MICROBLOG_TOKEN, with a state
\* file that holds keys, after a run that went through.
C9_Witness ==
  /\ HasPrev
  /\ pc[Prev] = "Done"
  /\ ~cfg[cur].mbToken
  /\ pc[cur] = "Exited"
  /\ FileKeys(file) # {}

(***************************************************************************)
(* C10.                                                                    *)
(***************************************************************************)
\* A thread reply, a message of a bot, or a message with a system subtype.
Automated(msg) == msg.bot_id \/ msg.thread_ts \/ msg.subtype

Human(msgs) ==
  LET IsHuman(m) == ~Automated(m) IN SelectSeq(msgs, IsHuman)

\* The links of the messages that are not Slack's own.
LinkedUrls(msgs) ==
  {msgs[i].links[j].url : <<i, j>> \in
     {<<i, j>> \in (1..Len(msgs)) \X (1..2) : j <= Len(msgs[i].links)}}
  \ SlackUrls

BookLine(m) ==
  [title |-> parseBookFromMessage(m.words).title,
   author |-> parseBookFromMessage(m.words).author]

BookLines(msgs) ==
  LET Reads(m) == ~HasUrl(m) /\ ~IsSkipped(m) /\ parseBookFromMessage(m.words).ok
      lines == SelectSeq(msgs, Reads)
  IN [i \in 1..Len(lines) |-> BookLine(lines[i])]

ReadingLines(msgs, cover) ==
  LET Reads(m) == /\ ~HasUrl(m) /\ ~IsSkipped(m) /\ ~IsMentionOrJoin(m)
                  /\ parseBookFromMessage(m.words).ok
      lines == SelectSeq(msgs, Reads)
  IN [i \in 1..Len(lines) |->
        [title |-> BookLine(lines[i]).title,
         author |-> IF BookLine(lines[i]).author = <<>> THEN <<Unknown>>
                    ELSE BookLine(lines[i]).author,
         image |-> IF cover THEN "cover:" \o BookKey(BookLine(lines[i]))
                   ELSE ""]]

UrlKey(u) == u
BookmarkKey(b) == b.url

\* out holds each key of raw once, with the record of the first occurrence
\* of the key in raw, in the order of the first occurrences.
FirstWins(out, raw, K(_)) ==
  LET First(k) == Min({i \in 1..Len(raw) : K(raw[i]) = k})
  IN /\ \A i, j \in 1..Len(out) : i < j => K(out[i]) # K(out[j])
     /\ {K(out[i]) : i \in 1..Len(out)} = {K(raw[i]) : i \in 1..Len(raw)}
     /\ \A i \in 1..Len(out) : out[i] = raw[First(K(out[i]))]
     /\ \A i, j \in 1..Len(out) :
          i < j => First(K(out[i])) < First(K(out[j]))

\* out holds each url of raw once, with the record of the latest date (the
\* first of them in raw if several have that date), newest first, records
\* of one date in the order of raw.
NewestWins(out, raw) ==
  LET Latest(u) ==
        Min({i \in 1..Len(raw) :
               /\ raw[i].url = u
               /\ \A j \in 1..Len(raw) :
                    raw[j].url = u => raw[j].date <= raw[i].date})
  IN /\ \A i, j \in 1..Len(out) : i < j => out[i].url # out[j].url
     /\ {out[i].url : i \in 1..Len(out)} = {raw[i].url : i \in 1..Len(raw)}
     /\ \A i \in 1..Len(out) : out[i] = raw[Latest(out[i].url)]
     /\ \A i, j \in 1..Len(out) :
          i < j => \/ out[i].date > out[j].date
                   \/ /\ out[i].date = out[j].date
                      /\ Latest(out[i].url) < Latest(out[j].url)

FirstWinsInSyncScripts ==
  /\ "urls" \in exApplied => FirstWins(exOut["urls"], AllUrls(exInput), UrlKey)
  /\ "books" \in exApplied =>
       FirstWins(exOut["books"], BookLines(exInput), BookKey)
  /\ "reading" \in exApplied =>
       FirstWins(exOut["reading"], ReadingLines(exInput, exLookup), ReadingKey)

\* C8 (as stated): each of the four extractors returns each key once, with
\* the record of its first occurrence in the input, in the order of the
\* first occurrences.
C8_FirstOccurrenceWins ==
  /\ FirstWinsInSyncScripts
  /\ "bookmarks" \in exApplied =>
       FirstWins(exOut["bookmarks"], AllBookmarks(exInput, exLookup),
                 BookmarkKey)

\* C8 (amended): extractUrls and both extractBooks return each key once,
\* with the record of its first occurrence in the input, in the order of the
\* first occurrences; extractBookmarks returns each url once, with the record
\* of its latest date (the first occurrence among those of that date), newest
\* first.
C8_FirstWinsButNewestBookmark ==
  /\ FirstWinsInSyncScripts
  /\ "bookmarks" \in exApplied =>
       NewestWins(exOut["bookmarks"], AllBookmarks(exInput, exLookup))

\* C8 witness: all four extractors were applied to messages in which a link
\* occurs twice, the newer occurrence later and with another title, and
\* which hold a book.
C8_Witness ==
  /\ exApplied = Extractors
  /\ exOut["books"] # <<>>
  /\ LET raw == AllBookmarks(exInput, exLookup)
     IN \E i, j \in 1..Len(raw) :
          /\ i < j
          /\ raw[i].url = raw[j].url
          /\ raw[i].date < raw[j].date
          /\ raw[i].title # raw[j].title

(***************************************************************************)
(* C11.                                                                    *)
(***************************************************************************)
\* C11: when the process has died in saveState, the state file is the
\* complete file the run started from or the complete state the run was
\* saving, it holds every key the file held before, and the next run loads
\* every key the file held before.
C11_SaveAtomicOnCrash ==
  \A p \in Procs :
    pc[p] = "Killed" =>
      /\ p = cur =>
           /\ file \in {fileAtStart[p], saveState(st[p])}
           /\ FileKeys(fileAtStart[p]) \subseteq FileKeys(file)
      /\ (p # cur /\ pc[cur] \in PastExtract \cup {"Fetching", "Extracting"}) =>
           FileKeys(fileAtStart[p]) \subseteq Range(loaded[cur])

(***************************************************************************)
(* C12.                                                                    *)
(***************************************************************************)
\* The words "by", in any case, of a text that have a word before and a
\* word after them.
ByWords(ws) == {i \in 1..Len(ws) : 1 < i /\ i < Len(ws) /\ Lower(ws[i]) = "by"}

SplitAt(ws, i) ==
  [title |-> SubSeq(ws, 1, i - 1), author |-> SubSeq(ws, i + 1, Len(ws))]

\* The messages extractBooks of sync-books reads, and those extractBooks of
\* the reading snapshot reads.
ReadBySync(msgs) ==
  LET Reads(m) == ~HasUrl(m) /\ ~Automated(m) IN SelectSeq(msgs, Reads)
ReadBySnapshot(msgs) ==
  LET Reads(m) == ~HasUrl(m) /\ ~Automated(m) /\ ~IsMentionOrJoin(m)
  IN SelectSeq(msgs, Reads)

\* The records are split at the separator Pick chooses: every record with
\* an author is some message read, without its prefixes, split there; every
\* record without one is a message read that has no separator; and every
\* message read that has a separator has its record, or one of the same
\* key, among the records.
SplitBy(out, read, Pick(_)) ==
  LET texts == {Cleaned(read[i].words) : i \in 1..Len(read)}
      split == {SplitAt(ws, Pick(ByWords(ws))) : ws \in {t \in texts : ByWords(t) # {}}}
      Bare(r) == [title |-> r.title, author |-> r.author]
  IN /\ \A i \in 1..Len(out) :
          (out[i].author # <<>> /\ out[i].author # <<Unknown>>) =>
            Bare(out[i]) \in split
     /\ \A i \in 1..Len(out) :
          out[i].author \in {<<>>, <<Unknown>>} =>
            \E t \in texts : ByWords(t) = {} /\ t = out[i].title
     /\ \A b \in split : \E i \in 1..Len(out) : BookKey(out[i]) = BookKey(b)

OneAtATime(p) ==
  /\ \E n \in 0..Len(newItems[p]) :
       PublishSeq(p) = SubSeq(KeySeq(newItems[p]), 1, n)
  /\ \A i \in EventsOf(p, "enrich") :
       i < Len(log[p]) =>
         /\ log[p][i + 1].op = "publish"
         /\ log[p][i + 1].key = log[p][i].key
  /\ script = "books" =>
       \A i \in EventsOf(p, "publish") :
         /\ i > 1
         /\ log[p][i - 1].op = "enrich"
         /\ log[p][i - 1].key = log[p][i].key

\* A delay lies between the two events of the log.
DelayBetween(p, i, j) ==
  \E d \in EventsOf(p, "delay") : i < d /\ d < j

\* C13: a run takes the steps on its new candidates one at a time, and
\* between any two publish calls of a run there is a delay, whether the
\* first of them returned or failed.
C13_SequentialAndDelayed ==
  \A p \in Procs :
    /\ OneAtATime(p)
    /\ \A i, j \in EventsOf(p, "publish") : i < j => DelayBetween(p, i, j)

(***************************************************************************)
(* C14.                                                                    *)
(***************************************************************************)
\* The run of p, under way, has overlapped a run of the other process: the
\* other was under way when p started, or has started since.
Overlapped(p) ==
  /\ log[p] # <<>>
  /\ \/ log[p][1].res = "overlap"
     \/ startedAt[Other(p)] > startedAt[p]

\* The step is the save of p.
Saves(p) == pc[p] = "Persisting" /\ pc'[p] = "Done"

\* C14: a save leaves in the file the keys the saving run loaded and those
\* it recorded, and nothing else: the keys the file held that the run had
\* not loaded are lost, so when both runs have ended the file is the state
\* of one of them alone; the save of a run that overlapped no other loses
\* no key.
C14_LaterSaveOverwrites ==
  /\ []((pc[1] = "Done" /\ pc[2] = "Done") =>
          file \in {saveState(st[1]), saveState(st[2])})
  /\ [][\A p \in Procs :
          Saves(p) =>
            /\ FileKeys(file') = Range(loaded[p]) \cup OkKeys(p)
            /\ ~Overlapped(p) => FileKeys(file) \subseteq FileKeys(file')]_vars

\* C14 witness: two runs that loaded the same keys have both ended, the
\* later started while the other was under way, each has published and
\* recorded a key, and the file lacks a key that one of them recorded.
C14_Witness ==
  /\ pc[1] = "Done" /\ pc[2] = "Done"
  /\ log[cur][1].res = "overlap"
  /\ loaded[1] = loaded[2]
  /\ OkKeys(1) # {} /\ OkKeys(2) # {}
  /\ \E p \in Procs :
       \E k \in OkKeys(p) : k \in Range(st[p].keys) /\ k \notin FileKeys(file)

(***************************************************************************)
(* C15.                                                                    *)
(***************************************************************************)
NoDuplicate(keys) ==
  \A i, j \in 1..Len(keys) : i < j => keys[i] # keys[j]

\* The list of keys a file holds, empty if it holds no state.
KeyList(f) == IF f.kind = "json" /\ f.hasKeys THEN f.keys ELSE <<>>

\* C15: a run that loaded a list of keys without duplicates holds one
\* without duplicates at every step, longer than the loaded one by the
\* value of its counter synced, which counts the publish calls that
\* returned; and when it has ended the file holds that list: without
\* duplicates, longer than the list of the file the run started from by the
\* count the run reports.
C15_NoDuplicateAndCount ==
  \A p \in Procs :
    /\ NoDuplicate(loaded[p]) => NoDuplicate(st[p].keys)
    /\ Len(st[p].keys) = Len(loaded[p]) + synced[p]
    /\ synced[p] =
         Cardinality({i \in EventsOf(p, "publish") : log[p][i].res = "ok"})
    /\ (pc[p] = "Done" /\ p = cur /\ NoDuplicate(KeyList(fileAtStart[p]))) =>
         /\ NoDuplicate(KeyList(file))
         /\ Len(KeyList(file)) = Len(KeyList(fileAtStart[p])) + synced[p]

\* C15 witness: a run published one key and failed on another, the next
\* run published the failed one, and both have ended: the file holds keys
\* of two runs.
C15_Witness ==
  /\ HasPrev
  /\ pc[Prev] = "Done" /\ pc[cur] = "Done"
  /\ synced[Prev] >= 1 /\ FailedKeys(Prev) # {}
  /\ synced[cur] >= 1
  /\ OkKeys(cur) \subseteq FailedKeys(Prev)
  /\ Len(KeyList(file)) >= 2

====
